---- MODULE Spec2Model ----
(***************************************************************************)
(* Model of streamlit-app.py: the button handler of main, which loads and  *)
(* cleans the uploaded table (load_data, validate_and_clean_data), groups  *)
(* it by landing page (group_data), compares every page with every other   *)
(* page (keywords_similares) and keeps the rows that list a similar URL.   *)
(*                                                                         *)
(* A landing page URL is an integer: 10*p is page p, 10*p + 1 is page p    *)
(* followed by a '#' fragment and 10*p + 2 is page p followed by '/'; the  *)
(* integers' order is the strings' order ('#' sorts before '/'), which is  *)
(* the order of the grouped table's index (groupby sorts its keys).        *)
(* A query is an integer: k > 0 is a lower-case term, -k the same term     *)
(* written in upper case, NaN a missing value.  The slider value percent   *)
(* is kept in hundredths (0..100), so  shared / len >= percent  is         *)
(* shared * 100 >= percent * len.                                          *)
(***************************************************************************)
EXTENDS Integers, Sequences, FiniteSets, TLC

\* ---------------------------------------------------------------- bounds
NumPages == 3

MaxClicks == 1

\* the literal of `if len(kwds_atuais) < 10`
MIN_KEYWORDS == 10

\* <<first query, number of queries>> of the pages of the input tables
Shapes == { <<1, 10>>, <<3, 10>>, <<11, 10>>, <<1, 4>>, <<1, 12>> }

\* slider positions (hundredths) of the input
Thresholds == {0, 20, 80, 100}

\* the slider's initial position, value=0.8
DefaultPercent == 80

\* the missing value of the 'Query' column
NaN == 0

Pages == 1..NumPages

VARIABLES
    uploaded_file,         \* st.file_uploader's value: [present, rows]
    gsc_data,              \* the table load_data returned: a sequence of rows
    percent,               \* the slider's value, in hundredths
    grouped_df,            \* group_data's table: page -> [Query, UrlClicks]
    resultados,            \* the rows keywords_similares has produced so far
    resultados_filtrados,  \* the rows kept by the 'URLs Semelhantes' filter
    display,               \* what main has shown: "none", "success", "warning", "error"
    pc                     \* position in main: "pressed", "loaded", "grouped", "applied", "done"

vars == <<uploaded_file, gsc_data, percent, grouped_df, resultados, resultados_filtrados, display, pc>>

\* ------------------------------------------------------------ input rows
Url(p) == 10 * p

UrlWithFragment(p) == 10 * p + 1

UrlWithSlash(p) == 10 * p + 2

UpperCase(k) == 0 - k

\* The rows of one page: one row per query; the first c rows carry one click.
PageRows(p, s, n, c) ==
    [i \in 1..n |-> [LandingPage |-> Url(p), Query |-> s + i - 1,
                     UrlClicks |-> IF i <= c THEN 1 ELSE 0]]

RECURSIVE TableOf(_, _, _)
TableOf(shape, clicks, p) ==
    IF p = 0 THEN << >>
    ELSE PageRows(p, shape[p][1], shape[p][2], clicks[p]) \o TableOf(shape, clicks, p - 1)

\* the rows an upload holds besides TableOf's
ExtraKinds == {"none", "variant", "dropped"}

\* "variant": the first row of page 1 once more, written with a trailing '/' and in
\* upper case.  "dropped": that row repeated as it is, a row of a '#' URL, a row
\* with no query and a row with negative clicks, each for page 1.
ExtraRows(kind, shape, clicks) ==
    LET first == PageRows(1, shape[1][1], shape[1][2], clicks[1])[1]
        fresh == shape[1][1] + shape[1][2]
    IN  IF kind = "variant"
        THEN << [LandingPage |-> UrlWithSlash(1), Query |-> UpperCase(first.Query),
                 UrlClicks |-> first.UrlClicks] >>
        ELSE IF kind = "dropped"
        THEN << first,
                [LandingPage |-> UrlWithFragment(1), Query |-> fresh, UrlClicks |-> 1],
                [LandingPage |-> Url(1), Query |-> NaN, UrlClicks |-> 1],
                [LandingPage |-> Url(1), Query |-> fresh + 1, UrlClicks |-> 0 - 1] >>
        ELSE << >>

NoFile == [present |-> FALSE, rows |-> << >>]

\* ----------------------------------- validate_and_clean_data, load_data
\* str.contains("#")
ContainsHash(url) == url % 10 = 1

\* str.rstrip('/')
RStripSlash(url) == IF url % 10 = 2 THEN url - 2 ELSE url

\* str.lower()
Lower(query) == IF query < 0 THEN 0 - query ELSE query

\* drop_duplicates(): a row equal to an earlier row is dropped
RECURSIVE KeepFirst(_, _)
KeepFirst(rows, n) ==
    IF n = 0 THEN << >>
    ELSE IF \E j \in 1..(n - 1) : rows[j] = rows[n]
         THEN KeepFirst(rows, n - 1)
         ELSE Append(KeepFirst(rows, n - 1), rows[n])

DropDuplicates(rows) == KeepFirst(rows, Len(rows))

validate_and_clean_data(data) ==
    LET NotNa(r) == r.Query # NaN
        dropped_na == SelectSeq(data, NotNa)
        unique == DropDuplicates(dropped_na)
        normal == [i \in DOMAIN unique |->
                      [LandingPage |-> RStripSlash(unique[i].LandingPage),
                       Query |-> Lower(unique[i].Query),
                       UrlClicks |-> unique[i].UrlClicks]]
        NotNegative(r) == r.UrlClicks >= 0
    IN  SelectSeq(normal, NotNegative)

load_data(file) ==
    LET NoHash(r) == ~ContainsHash(r.LandingPage)
    IN  validate_and_clean_data(SelectSeq(file, NoHash))

\* --------------------------------------------------------------- helpers
Min(S) == CHOOSE x \in S : \A y \in S : x <= y

RECURSIVE SortedSeq(_)
SortedSeq(S) ==
    IF S = {} THEN << >>
    ELSE LET first == Min(S) IN <<first>> \o SortedSeq(S \ {first})

RECURSIVE SumUpTo(_, _, _)
SumUpTo(rows, p, n) ==
    IF n = 0 THEN 0
    ELSE (IF rows[n].LandingPage = p THEN rows[n].UrlClicks ELSE 0) + SumUpTo(rows, p, n - 1)

\* the sum of 'Url Clicks' over the rows of landing page p
SumClicks(rows, p) == SumUpTo(rows, p, Len(rows))

\* ------------------------------------------------------------ group_data
group_data(data) ==
    LET index == { data[i].LandingPage : i \in DOMAIN data }
        kwd_by_urls(p) == { data[i].Query : i \in { j \in DOMAIN data : data[j].LandingPage = p } }
        clicks_by_urls(p) == SumClicks(data, p)
    IN  [p \in index |-> [Query |-> kwd_by_urls(p), UrlClicks |-> clicks_by_urls(p)]]

\* the order in which the rows of the grouped table are visited
IndexOrder(df) == SortedSeq(DOMAIN df)

\* ---------------------------------------------------- keywords_similares
\* quantidade_compartilhada / len(kwds_atuais) >= percent, with the wrong denominator
SimilarEnoughTargetLen(kwds_atuais, queries, pct) ==
    Cardinality(kwds_atuais \cap queries) * 100 >= pct * Cardinality(queries)

\* the same test with the comparison turned round
SimilarEnoughFlipped(kwds_atuais, queries, pct) ==
    Cardinality(kwds_atuais \cap queries) * 100 <= pct * Cardinality(kwds_atuais)

\* percentual_similaridade >= percent, where percentual_similaridade is
\* len(kwds_atuais.intersection(queries)) / len(kwds_atuais)
SimilarEnough(kwds_atuais, queries, pct) ==
    Cardinality(kwds_atuais \cap queries) * 100 >= pct * Cardinality(kwds_atuais)

\* the appended entry, reporting the size of the other page's set
SimilarInfoTargetCount(url, kwds_atuais, queries) ==
    [URLSemelhante |-> url,
     TermosCompartilhados |-> kwds_atuais \cap queries,
     Quantidade |-> Cardinality(queries)]

\* the entry appended to similares_info
SimilarInfo(url, kwds_atuais, queries) ==
    [URLSemelhante |-> url,
     TermosCompartilhados |-> kwds_atuais \cap queries,
     Quantidade |-> Cardinality(kwds_atuais \cap queries)]

\* the loop over grouped_df['Query'].items() that fills similares_info
RECURSIVE SimilaresLoop(_, _, _, _)
SimilaresLoop(order, url_atual, df, pct) ==
    IF order = << >> THEN << >>
    ELSE LET url == Head(order)
             kwds_atuais == df[url_atual].Query
             queries == df[url].Query
             rest == SimilaresLoop(Tail(order), url_atual, df, pct)
         IN  IF url # url_atual /\ SimilarEnough(kwds_atuais, queries, pct)
             THEN <<SimilarInfo(url, kwds_atuais, queries)>> \o rest
             ELSE rest

SimilaresInfo(url_atual, df, pct) == SimilaresLoop(IndexOrder(df), url_atual, df, pct)

\* idxmax taking the source page whatever its clicks
IdxMaxFirstLabel(todas_urls, df) == todas_urls[1]

\* idxmax returning the last label that carries the maximum
IdxMaxLast(todas_urls, df) ==
    LET best == CHOOSE i \in DOMAIN todas_urls :
                    /\ \A j \in DOMAIN todas_urls :
                           df[todas_urls[j]].UrlClicks <= df[todas_urls[i]].UrlClicks
                    /\ \A j \in (i + 1)..Len(todas_urls) :
                           df[todas_urls[j]].UrlClicks < df[todas_urls[i]].UrlClicks
    IN  todas_urls[best]

\* cliques_urls.idxmax(): the first label of todas_urls that carries the maximum
IdxMax(todas_urls, df) ==
    LET best == CHOOSE i \in DOMAIN todas_urls :
                    /\ \A j \in DOMAIN todas_urls :
                           df[todas_urls[j]].UrlClicks <= df[todas_urls[i]].UrlClicks
                    /\ \A j \in 1..(i - 1) :
                           df[todas_urls[j]].UrlClicks < df[todas_urls[i]].UrlClicks
    IN  todas_urls[best]

\* cliques_urls.max()
SeriesMax(todas_urls, df) ==
    LET vals == { df[todas_urls[i]].UrlClicks : i \in DOMAIN todas_urls }
    IN  CHOOSE v \in vals : \A w \in vals : w <= v

\* the Series returned when the page is below the minimum or has no similar page
EmptyResult(url_atual, df) ==
    [URLsSemelhantes |-> << >>,
     TermosCompartilhados |-> << >>,
     Quantidade |-> << >>,
     URLaManter |-> url_atual,
     CliquesDaURLaManter |-> df[url_atual].UrlClicks]

\* the minimum test with the comparison turned round
BelowMinimumFlipped(kwds_atuais) == Cardinality(kwds_atuais) > MIN_KEYWORDS

\* len(kwds_atuais) < 10
BelowMinimum(kwds_atuais) == Cardinality(kwds_atuais) < MIN_KEYWORDS

keywords_similares(url_atual, df, pct) ==
    IF BelowMinimum(df[url_atual].Query) THEN EmptyResult(url_atual, df)
    ELSE
      LET similares_info == SimilaresInfo(url_atual, df, pct)
      IN  IF similares_info = << >> THEN EmptyResult(url_atual, df)
          ELSE
            LET todas_urls == <<url_atual>> \o
                    [i \in DOMAIN similares_info |-> similares_info[i].URLSemelhante]
                url_a_manter == IdxMax(todas_urls, df)
                cliques_a_manter == SeriesMax(todas_urls, df)
                NotKept(info) == info.URLSemelhante # url_a_manter
                similares_final == SelectSeq(similares_info, NotKept)
            IN  [URLsSemelhantes |->
                     [i \in DOMAIN similares_final |-> similares_final[i].URLSemelhante],
                 TermosCompartilhados |->
                     [i \in DOMAIN similares_final |-> similares_final[i].TermosCompartilhados],
                 Quantidade |->
                     [i \in DOMAIN similares_final |-> similares_final[i].Quantidade],
                 URLaManter |-> url_a_manter,
                 CliquesDaURLaManter |-> cliques_a_manter]

\* resultados_df['URLs Semelhantes'].map(len) > 0
FilterRows(res) ==
    LET kept == { p \in DOMAIN res : Len(res[p].URLsSemelhantes) > 0 }
    IN  [p \in kept |-> res[p]]

\* ------------------------------------------------------------------ main
\* the page with the button 'Iniciar' pressed; an upload with rows besides TableOf's
\* gives every page the same clicks and is run at the slider's initial position
Init ==
    /\ \/ /\ \E shape \in [Pages -> Shapes], clicks \in [Pages -> 0..MaxClicks] :
                uploaded_file = [present |-> TRUE, rows |-> TableOf(shape, clicks, NumPages)]
          /\ percent \in Thresholds
       \/ /\ \E shape \in [Pages -> Shapes], c \in 0..MaxClicks,
                kind \in ExtraKinds \ {"none"} :
                LET clicks == [p \in Pages |-> c]
                IN  uploaded_file = [present |-> TRUE,
                                     rows |-> TableOf(shape, clicks, NumPages)
                                              \o ExtraRows(kind, shape, clicks)]
          /\ percent = DefaultPercent
       \/ /\ uploaded_file = NoFile
          /\ percent \in Thresholds
    /\ gsc_data = << >>
    /\ grouped_df = << >>
    /\ resultados = << >>
    /\ resultados_filtrados = << >>
    /\ display = "none"
    /\ pc = "pressed"

\* uploaded_file is None: st.error
ShowError ==
    /\ pc = "pressed"
    /\ ~uploaded_file.present
    /\ display' = "error"
    /\ pc' = "done"
    /\ UNCHANGED <<uploaded_file, gsc_data, percent, grouped_df, resultados, resultados_filtrados>>

\* gsc_data = load_data(uploaded_file)
LoadData ==
    /\ pc = "pressed"
    /\ uploaded_file.present
    /\ gsc_data' = load_data(uploaded_file.rows)
    /\ pc' = "loaded"
    /\ UNCHANGED <<uploaded_file, percent, grouped_df, resultados, resultados_filtrados, display>>

\* grouped_df = group_data(gsc_data)
GroupData ==
    /\ pc = "loaded"
    /\ grouped_df' = group_data(gsc_data)
    /\ pc' = "grouped"
    /\ UNCHANGED <<uploaded_file, gsc_data, percent, resultados, resultados_filtrados, display>>

\* resultados = grouped_df.apply(keywords_similares, axis=1, args=(grouped_df, percent))
Apply ==
    /\ pc = "grouped"
    /\ resultados' = [url \in DOMAIN grouped_df |-> keywords_similares(url, grouped_df, percent)]
    /\ pc' = "applied"
    /\ UNCHANGED <<uploaded_file, gsc_data, percent, grouped_df, resultados_filtrados, display>>

\* the filter, then st.success / st.dataframe / st.download_button
ShowResults ==
    /\ pc = "applied"
    /\ FilterRows(resultados) # << >>
    /\ resultados_filtrados' = FilterRows(resultados)
    /\ display' = "success"
    /\ pc' = "done"
    /\ UNCHANGED <<uploaded_file, gsc_data, percent, grouped_df, resultados>>

\* the filter, then st.warning
ShowWarning ==
    /\ pc = "applied"
    /\ FilterRows(resultados) = << >>
    /\ resultados_filtrados' = FilterRows(resultados)
    /\ display' = "warning"
    /\ pc' = "done"
    /\ UNCHANGED <<uploaded_file, gsc_data, percent, grouped_df, resultados>>

Next == ShowError \/ LoadData \/ GroupData \/ Apply \/ ShowResults \/ ShowWarning

Spec == Init /\ [][Next]_vars

\* ============================================================ properties
Range(f) == { f[i] : i \in DOMAIN f }

K(p) == grouped_df[p].Query

Clicks(p) == grouped_df[p].UrlClicks

\* the pages of the grouped table
Table == DOMAIN grouped_df

\* the rows produced so far whose page reached the comparison loop
Sources == { a \in DOMAIN resultados : Cardinality(K(a)) >= MIN_KEYWORDS }

\* the emitted groups, named by their source page (the row's index)
Emitted == DOMAIN resultados_filtrados

Members(a) == Range(resultados[a].URLsSemelhantes)

Rep(a) == resultados[a].URLaManter

\* every page a row names besides its own page
Named(a) == Members(a) \cup ({Rep(a)} \ {a})

\* the pages that pass the pairwise test against a at threshold t, from the claim's words
Qualifying(a, t) ==
    { b \in Table \ {a} : Cardinality(K(a) \cap K(b)) * 100 >= t * Cardinality(K(a)) }

\* the pages the comparison loop of the model collects for a at threshold t
Collected(a, t) ==
    LET info == SimilaresInfo(a, grouped_df, t)
    IN  { info[i].URLSemelhante : i \in DOMAIN info }

\* the pages of M = {a} \cup C_a carrying the largest click total
TopOf(M) == { p \in M : \A q \in M : Clicks(q) <= Clicks(p) }

\* ------------------------------------------------------------------- C1
\* C1 (as claimed): two distinct emitted groups share no member, and the
\* representative of one is neither a member nor the representative of the other.
C1_Disjointness ==
    pc = "done" =>
        \A a, b \in Emitted :
            a # b => /\ Members(a) \cap Members(b) = {}
                     /\ Rep(a) \notin Members(b) \cup {Rep(b)}

\* ------------------------------------------------------------------- C2
\* C2 (as claimed): no page with fewer than 10 keywords is the source or the
\* representative of an emitted group.
C2_Original ==
    pc = "done" =>
        \A a \in Emitted : /\ Cardinality(K(a)) >= MIN_KEYWORDS
                           /\ Cardinality(K(Rep(a))) >= MIN_KEYWORDS

\* C2 (amended): no page with fewer than 10 keywords is the source of an emitted
\* group, nor of any row that names another page; it may be a member or the
\* representative of another page's group.
C2_SourceHasMinimum ==
    /\ \A a \in DOMAIN resultados :
           Cardinality(K(a)) < MIN_KEYWORDS => Named(a) = {}
    /\ \A a \in Emitted : Cardinality(K(a)) >= MIN_KEYWORDS

C2_Witness ==
    /\ pc = "done"
    /\ \E a \in Emitted : \E m \in Members(a) : Cardinality(K(m)) < MIN_KEYWORDS
    /\ \E a \in Table \ Emitted : Cardinality(K(a)) < MIN_KEYWORDS

\* ------------------------------------------------------------------- C3
\* C3: in every emitted group the representative has at least the clicks of every
\* member and of the source page, and 'Cliques da URL a Manter' is the
\* representative's own click total.
C3_RepresentativeOptimal ==
    \A a \in Emitted :
        /\ \A m \in Members(a) \cup {a} : Clicks(Rep(a)) >= Clicks(m)
        /\ resultados_filtrados[a].CliquesDaURLaManter = Clicks(resultados_filtrados[a].URLaManter)
        /\ resultados_filtrados[a] = resultados[a]

C3_Witness ==
    /\ pc = "done"
    /\ \E a \in Emitted :
           /\ Rep(a) # a
           /\ Clicks(a) < Clicks(Rep(a))
           /\ \E m \in Members(a) : Clicks(m) < Clicks(Rep(a))

\* ------------------------------------------------------------------- C4
\* C4: for a source page A with at least 10 keywords, the pages its row names are
\* exactly the pages B with |K_A \cap K_B| / |K_A| >= t; at t = 1 they are exactly
\* the pages whose keyword set contains K_A.
C4_SourceDenominator ==
    \A a \in Sources :
        /\ Named(a) = Qualifying(a, percent)
        /\ percent = 100 => Named(a) = { b \in Table \ {a} : K(a) \subseteq K(b) }

\* the relation is asymmetric: A qualifies B while B does not qualify A
C4_Witness ==
    \E a, b \in Sources :
        /\ a # b
        /\ b \in Named(a)
        /\ a \notin Named(b)
        /\ Cardinality(K(a)) # Cardinality(K(b))

\* ------------------------------------------------------------------- C5
\* C5 (as claimed): at every threshold, t = 0 included, a page sharing no keyword
\* with the source is never named in its row; at t = 0 the pages named are exactly
\* those sharing at least one keyword with the source.
C5_ZeroOverlapExcluded ==
    \A a \in Sources :
        /\ \A b \in Named(a) : K(a) \cap K(b) # {}
        /\ percent = 0 => Named(a) = { b \in Table \ {a} : K(a) \cap K(b) # {} }

\* ------------------------------------------------------------------- C6
\* C6 (as claimed): among the pages of M = {A} \cup C_A tied at the largest click
\* total, the representative is the first in the table's page order.
C6_Original ==
    \A a \in Sources :
        Qualifying(a, percent) # {} =>
            Rep(a) = Min(TopOf({a} \cup Qualifying(a, percent)))

\* C6 (amended): among the pages of M tied at the largest click total, the
\* representative is the source page A when A is one of them, and otherwise the
\* first of them in the table's page order.
C6_SourceFirstTieBreak ==
    \A a \in Sources :
        Qualifying(a, percent) # {} =>
            LET top == TopOf({a} \cup Qualifying(a, percent))
            IN  Rep(a) = IF a \in top THEN a ELSE Min(top)

C6_Witness ==
    \E a \in Sources :
        LET top == TopOf({a} \cup Qualifying(a, percent))
        IN  \/ /\ a \in top
               /\ \E b \in top : b < a
               /\ Rep(a) = a
            \/ /\ a \notin top
               /\ Cardinality(top) > 1
               /\ \E b \in top : b > Rep(a)

\* ------------------------------------------------------------------- C7
\* the slider positions (hundredths) the run's threshold is compared with
SliderSteps == { 20 * i : i \in 0..5 }

\* C7: for a fixed table and source page, the pages collected at a higher threshold
\* are a subset of the pages collected at a lower one.
C7_ThresholdMonotone ==
    pc = "applied" =>
        \A a \in Sources : \A t \in SliderSteps :
            /\ t >= percent => Collected(a, t) \subseteq Named(a)
            /\ t <= percent => Named(a) \subseteq Collected(a, t)

C7_Witness ==
    /\ pc = "applied"
    /\ \E a \in Sources : \E t \in SliderSteps :
           /\ t > percent
           /\ Collected(a, t) # {}
           /\ Collected(a, t) # Named(a)

\* ------------------------------------------------------------------- C9
\* C9 (as claimed): every source page with a non-empty qualifying set yields an
\* emitted group whose representative is a max-click page of M = {A} \cup C_A and
\* whose members are exactly M without the representative.
C9_GroupEmission ==
    pc = "done" =>
        \A a \in Sources :
            Qualifying(a, percent) # {} =>
                /\ a \in Emitted
                /\ Rep(a) \in TopOf({a} \cup Qualifying(a, percent))
                /\ Members(a) = ({a} \cup Qualifying(a, percent)) \ {Rep(a)}

\* ------------------------------------------------------------------ C10
\* C10: every page named in an emitted group passes the pairwise test against the
\* group's source page, and each member's reported count and terms are those it
\* shares with the source page.
C10_NoTransitiveClosure ==
    \A a \in Emitted :
        LET row == resultados_filtrados[a]
        IN  /\ \A b \in Range(row.URLsSemelhantes) \cup ({row.URLaManter} \ {a}) :
                   Cardinality(K(a) \cap K(b)) * 100 >= percent * Cardinality(K(a))
            /\ Len(row.Quantidade) = Len(row.URLsSemelhantes)
            /\ Len(row.TermosCompartilhados) = Len(row.URLsSemelhantes)
            /\ \A i \in DOMAIN row.URLsSemelhantes :
                   /\ row.Quantidade[i] = Cardinality(K(a) \cap K(row.URLsSemelhantes[i]))
                   /\ row.TermosCompartilhados[i] = K(a) \cap K(row.URLsSemelhantes[i])

\* A qualifies B, B qualifies C, A does not qualify C, and C is not in A's group
C10_Witness ==
    /\ pc = "done"
    /\ \E a \in Emitted : \E b \in Members(a) : \E c \in Table \ {a, b} :
           /\ b \in Sources
           /\ c \in Qualifying(b, percent)
           /\ c \notin Qualifying(a, percent)
           /\ c \notin Members(a)
           /\ c # Rep(a)
====
